---- MODULE Spec2Model ----
(***************************************************************************)
(* Model of the paypal-rs client: the OAuth2 token cache                   *)
(* (Client::get_access_token, Client::access_token_expired) and the        *)
(* endpoint dispatcher (Client::execute_ext, Client::setup_headers) of     *)
(* src/src/client.rs, with the endpoint descriptors of src/src/api and     *)
(* the error types of src/src/errors.rs.                                   *)
(*                                                                         *)
(* Strings are TLA+ strings; Option<T> is NoneVal / Some(v); a JSON        *)
(* object is a record whose domain is the set of keys that are present.    *)
(* The monotonic clock (std::time::Instant) counts whole seconds.          *)
(***************************************************************************)
EXTENDS Integers, Sequences, FiniteSets, TLC

(***************************************************************************)
(* Bounds of the model.                                                    *)
(***************************************************************************)
\* the clock runs from 0 to MaxTime seconds
MaxTime == 3
\* the provider answers with expires_in in 0..MaxExpires
MaxExpires == 2
\* the futures of one client a caller holds at a time
MaxCalls == 2

(***************************************************************************)
(* Option<T>                                                               *)
(***************************************************************************)
NoneVal == [some |-> FALSE]
Some(v) == [some |-> TRUE, val |-> v]

(***************************************************************************)
(* Environment: PaypalEnv::endpoint, PaypalEnv::make_url                   *)
(***************************************************************************)
LIVE_ENDPOINT == "https://api-m.paypal.com"
SANDBOX_ENDPOINT == "https://api-m.sandbox.paypal.com"
\* the url a test hands to PaypalEnv::Mock
MockUrl == "http://127.0.0.1:8080"

PaypalEnv == {[kind |-> "Live"], [kind |-> "Sandbox"], [kind |-> "Mock", url |-> MockUrl]}

\* endpoint with the hosts of Live and Sandbox exchanged
endpoint_swapped(e) ==
    CASE e.kind = "Live" -> SANDBOX_ENDPOINT
      [] e.kind = "Sandbox" -> LIVE_ENDPOINT
      [] e.kind = "Mock" -> e.url

\* PaypalEnv::endpoint
endpoint(e) ==
    CASE e.kind = "Live" -> LIVE_ENDPOINT
      [] e.kind = "Sandbox" -> SANDBOX_ENDPOINT
      [] e.kind = "Mock" -> e.url

starts_with_slash(target) == Len(target) >= 1 /\ SubSeq(target, 1, 1) = "/"

\* make_url without its assertion
make_url_no_assert(e, target) == [panic |-> FALSE, url |-> endpoint(e) \o target]

\* assert!(target.starts_with('/')): the panic is the outcome [panic |-> TRUE]
make_url(e, target) ==
    IF starts_with_slash(target)
    THEN [panic |-> FALSE, url |-> endpoint(e) \o target]
    ELSE [panic |-> TRUE]

(***************************************************************************)
(* JSON bodies and their deserialization (serde derive(Deserialize)):      *)
(* a field of type Option<T> may be absent, every other field is required, *)
(* unknown keys are ignored.                                               *)
(***************************************************************************)
Has(obj, keys) == keys \subseteq DOMAIN obj
Opt(obj, k) == IF k \in DOMAIN obj THEN Some(obj[k]) ELSE NoneVal

\* a body that is not a JSON object at all
NotJson == [raw |-> "<html>"]

AccessTokenFields == {"scope", "access_token", "token_type", "app_id", "expires_in", "nonce"}

\* res.json::<AccessToken>()
DecodeAccessToken(body) ==
    IF Has(body, AccessTokenFields) /\ body.expires_in \in Nat
    THEN [ok |-> TRUE,
          val |-> [scope |-> body.scope, access_token |-> body.access_token,
                   token_type |-> body.token_type, app_id |-> body.app_id,
                   expires_in |-> body.expires_in, nonce |-> body.nonce]]
    ELSE [ok |-> FALSE]

\* struct PaypalError under #[serde(default)]: a field the body lacks is empty
DecodePaypalError_default(body) ==
    [ok |-> TRUE,
     val |-> [name |-> IF Has(body, {"name"}) THEN body.name ELSE "",
              message |-> Opt(body, "message"), debug_id |-> Opt(body, "debug_id"),
              details |-> IF Has(body, {"details"}) THEN body.details ELSE <<>>,
              error |-> Opt(body, "error"),
              error_description |-> Opt(body, "error_description"),
              links |-> IF Has(body, {"links"}) THEN body.links ELSE <<>>]]

\* res.json::<PaypalError>()
DecodePaypalError(body) ==
    IF Has(body, {"name", "details", "links"})
    THEN [ok |-> TRUE,
          val |-> [name |-> body.name, message |-> Opt(body, "message"),
                   debug_id |-> Opt(body, "debug_id"), details |-> body.details,
                   error |-> Opt(body, "error"),
                   error_description |-> Opt(body, "error_description"),
                   links |-> body.links]]
    ELSE [ok |-> FALSE]

\* is_success without its upper bound
is_success_no_upper_bound(status) == status >= 200

\* res.status().is_success()
is_success(status) == status >= 200 /\ status <= 299

(***************************************************************************)
(* ResponseError                                                           *)
(***************************************************************************)
Ok(v) == [kind |-> "Ok", val |-> v]
ApiError(p) == [kind |-> "ApiError", payload |-> p]
\* From<reqwest::Error> that keeps no cause
HttpError_opaque(cause) == [kind |-> "HttpError", cause |-> "error"]

HttpError(cause) == [kind |-> "HttpError", cause |-> cause]

\* what send() may fail with (reqwest::Error of kind Request: is_connect, is_timeout)
TransportCauses == {"connect", "timeout"}
Unit == "()"

(***************************************************************************)
(* What the token endpoint may answer.                                     *)
(***************************************************************************)
TokenStrings == {"TESTBEARERTOKEN", "TOKEN2"}

TokenJson(t, n) ==
    [scope |-> "https://uri.paypal.com/services/invoicing", access_token |-> t,
     token_type |-> "Bearer", app_id |-> "APP-80W284485P519543T",
     expires_in |-> n, nonce |-> "nonce"]

ErrorJson ==
    [name |-> "UNPROCESSABLE_ENTITY", message |-> "The requested action could not be performed",
     debug_id |-> "b6b9a374802ea", details |-> <<>>, links |-> <<>>]

\* the error body of the identity service: no name, details or links
IdentityErrorJson ==
    [error |-> "invalid_client", error_description |-> "Client Authentication failed"]

TokenBodies ==
    {TokenJson(t, n) : t \in TokenStrings, n \in 0..MaxExpires}
        \cup {ErrorJson, IdentityErrorJson, NotJson}

TokenStatuses == {200, 401}

(***************************************************************************)
(* Headers: a HeaderMap is the sequence of the (name, value) pairs         *)
(* appended to it.                                                         *)
(***************************************************************************)
append(headers, name, value) == Append(headers, <<name, value>>)

HeaderValues(headers, name) ==
    {headers[i][2] : i \in {j \in DOMAIN headers : headers[j][1] = name}}

HasHeader(headers, name) == \E i \in DOMAIN headers : headers[i][1] = name

\* base64::encode, kept symbolic
base64_encode(s) == "base64(" \o s \o ")"

\* jsonwebtoken::encode(&Header::new(alg), &claims, &EncodingKey::from_secret(key)):
\* header.claims.signature, the signature keyed by the secret
jsonwebtoken_encode(alg, claims, key) ==
    LET signing_input == "{alg:" \o alg \o "}.{iss:" \o claims.iss
                             \o ",payer_id:" \o claims.payer_id \o "}"
    IN signing_input \o "." \o alg \o "(" \o key \o "," \o signing_input \o ")"

\* RequestBuilder::basic_auth
basic_auth(username, password) ==
    "Basic " \o base64_encode(username \o ":" \o password)

(***************************************************************************)
(* HeaderParams (src/src/lib.rs)                                           *)
(***************************************************************************)
HeaderParamsDefault ==
    [merchant_payer_id |-> NoneVal, client_metadata_id |-> NoneVal,
     partner_attribution_id |-> NoneVal, request_id |-> NoneVal,
     prefer |-> "Representation", content_type |-> NoneVal]

\* the HeaderParams a caller passes to execute_ext
HeaderParamsInputs ==
    {HeaderParamsDefault,
     [HeaderParamsDefault EXCEPT !.merchant_payer_id = Some("MERCHANT1")],
     [HeaderParamsDefault EXCEPT !.client_metadata_id = Some("meta-1")],
     [HeaderParamsDefault EXCEPT !.partner_attribution_id = Some("BN-1")],
     [HeaderParamsDefault EXCEPT !.request_id = Some("TEST-1")],
     [HeaderParamsDefault EXCEPT !.prefer = "Minimal"],
     [HeaderParamsDefault EXCEPT !.content_type = Some("text/plain")],
     [merchant_payer_id |-> Some("MERCHANT2"), client_metadata_id |-> Some("meta-1"),
      partner_attribution_id |-> Some("BN-1"), request_id |-> Some("TEST-1"),
      prefer |-> "Minimal", content_type |-> Some("application/json")]}

(***************************************************************************)
(* Endpoint descriptors (src/src/endpoint.rs, src/src/api/orders.rs)       *)
(***************************************************************************)
OrderPayloadJson == "{intent:AUTHORIZE,purchase_units:[{amount:{currency_code:USD,value:100.00}}]}"

\* OrderPayload::new(Intent::Authorize, vec![PurchaseUnit::new(Amount::new(USD, "100.00"))])
OrderPayload ==
    [intent |-> "Authorize", payer |-> NoneVal,
     purchase_units |-> << [reference_id |-> NoneVal,
                            amount |-> [currency_code |-> "USD", value |-> "100.00"]] >>,
     application_context |-> NoneVal]

\* enum Intent serialized without its rename_all
SerializeIntent_no_rename(intent) == intent

\* #[serde(rename_all = "SCREAMING_SNAKE_CASE")] enum Intent
SerializeIntent(intent) ==
    CASE intent = "Capture" -> "CAPTURE"
      [] intent = "Authorize" -> "AUTHORIZE"

\* a field under #[skip_serializing_none]: nothing when None
SerializeOption(key, value) == IF value.some THEN key \o ":" \o value.val \o "," ELSE ""

\* struct Amount (breakdown is None)
SerializeAmount(amount) ==
    "{currency_code:" \o amount.currency_code \o ",value:" \o amount.value \o "}"

\* struct PurchaseUnit (the fields after amount are None)
SerializePurchaseUnit(unit) ==
    "{" \o SerializeOption("reference_id", unit.reference_id)
        \o "amount:" \o SerializeAmount(unit.amount) \o "}"

\* Vec<PurchaseUnit>: the elements with ',' between them
RECURSIVE SerializePurchaseUnits(_)
SerializePurchaseUnits(units) ==
    IF units = <<>> THEN ""
    ELSE SerializePurchaseUnit(Head(units))
            \o (IF Tail(units) = <<>> THEN "" ELSE "," \o SerializePurchaseUnits(Tail(units)))

\* struct OrderPayload under #[skip_serializing_none], fields in the order of the struct
SerializeOrderPayload(payload) ==
    "{intent:" \o SerializeIntent(payload.intent) \o ","
        \o SerializeOption("payer", payload.payer)
        \o "purchase_units:[" \o SerializePurchaseUnits(payload.purchase_units) \o "]"
        \o (IF payload.application_context.some
            THEN ",application_context:" \o payload.application_context.val ELSE "")
        \o "}"

\* serde_json::to_vec(&body) of the body of an endpoint
serde_json_to_vec(body) ==
    CASE "intent" \in DOMAIN body -> SerializeOrderPayload(body)

\* impl Endpoint for CreateOrder
CreateOrder ==
    [name |-> "CreateOrder", relative_path |-> "/v2/checkout/orders", method |-> "POST",
     query |-> NoneVal, body |-> Some(OrderPayload), response |-> "Order"]

\* impl Endpoint for ShowOrderDetails
ShowOrderDetails(order_id) ==
    [name |-> "ShowOrderDetails", relative_path |-> "/v2/checkout/orders/" \o order_id,
     method |-> "GET", query |-> NoneVal, body |-> NoneVal, response |-> "Order"]

\* an Endpoint a caller implements whose relative_path breaks the trait's contract
CallerEndpoint(path) ==
    [name |-> "CallerEndpoint", relative_path |-> path, method |-> "GET",
     query |-> NoneVal, body |-> NoneVal, response |-> "Order"]

Endpoints ==
    {CreateOrder, ShowOrderDetails("5O190127TN364715T"),
     CallerEndpoint("v2/checkout/orders")}

\* Query::default(): every field None
QueryDefault ==
    [count |-> NoneVal, end_time |-> NoneVal, page |-> NoneVal, page_size |-> NoneVal,
     total_count_required |-> NoneVal, sort_by |-> NoneVal, sort_order |-> NoneVal,
     start_id |-> NoneVal, start_index |-> NoneVal, start_time |-> NoneVal]

\* impl Endpoint for ListInvoices
ListInvoices(query) ==
    [name |-> "ListInvoices", relative_path |-> "/v2/invoicing/invoices", method |-> "GET",
     query |-> Some(query), body |-> NoneVal, response |-> "InvoiceList"]

\* impl Endpoint for DeleteInvoice: query() and body() are the defaults
DeleteInvoice(invoice_id) ==
    [name |-> "DeleteInvoice", relative_path |-> "/v2/invoicing/invoices/" \o invoice_id,
     method |-> "DELETE", query |-> NoneVal, body |-> NoneVal, response |-> "()"]

\* the queries the callers of ListInvoices pass
QueryInputs ==
    {QueryDefault,
     [QueryDefault EXCEPT !.page = Some(1), !.page_size = Some(20),
                          !.total_count_required = Some(TRUE)]}

InvoiceEndpoints == {ListInvoices(q) : q \in QueryInputs}

Digits == <<"0", "1", "2", "3", "4", "5", "6", "7", "8", "9">>

\* i32 as serde writes it: decimal, '-' in front of a negative number
RECURSIVE itoa(_)
itoa(n) ==
    IF n < 0 THEN "-" \o itoa(-n)
    ELSE IF n < 10 THEN Digits[n + 1]
    ELSE itoa(n \div 10) \o Digits[(n % 10) + 1]

\* bool as serde writes it
btoa(b) == IF b THEN "true" ELSE "false"

\* #[derive(Serialize)] struct Query: the fields in the order of the struct, each
\* Option<String> of what serde writes for the value (the strings and times the
\* callers pass have no character that serde_qs escapes)
SerializeQuery(q) ==
    LET int(o) == IF o.some THEN Some(itoa(o.val)) ELSE NoneVal
        bool(o) == IF o.some THEN Some(btoa(o.val)) ELSE NoneVal
    IN << <<"count", int(q.count)>>, <<"end_time", q.end_time>>, <<"page", int(q.page)>>,
          <<"page_size", int(q.page_size)>>,
          <<"total_count_required", bool(q.total_count_required)>>,
          <<"sort_by", q.sort_by>>, <<"sort_order", q.sort_order>>,
          <<"start_id", q.start_id>>, <<"start_index", int(q.start_index)>>,
          <<"start_time", q.start_time>> >>

\* serde_qs::to_string of a struct without #[skip_serializing_none]: a field that
\* is None is written with an empty value
RECURSIVE serde_qs_to_string_no_skip(_)
serde_qs_to_string_no_skip(query) ==
    IF query = <<>> THEN ""
    ELSE LET f == Head(query)
             rest == serde_qs_to_string_no_skip(Tail(query))
         IN f[1] \o "=" \o (IF f[2].some THEN f[2].val ELSE "")
                 \o (IF rest = "" THEN "" ELSE "&" \o rest)

\* serde_qs::to_string of a struct under #[skip_serializing_none]: the fields that
\* are Some, as key=value joined by '&'
RECURSIVE serde_qs_to_string(_)
serde_qs_to_string(query) ==
    IF query = <<>> THEN ""
    ELSE LET f == Head(query)
             rest == serde_qs_to_string(Tail(query))
         IN IF ~f[2].some THEN rest
            ELSE f[1] \o "=" \o f[2].val \o (IF rest = "" THEN "" ELSE "&" \o rest)

(***************************************************************************)
(* Response schemas (src/src/data/orders.rs)                               *)
(***************************************************************************)
\* enum OrderStatus without its rename_all
DecodeOrderStatus_no_rename(s) ==
    IF s \in {"Created", "Saved", "Approved", "Voided", "Completed"}
    THEN Some(s) ELSE NoneVal

\* #[serde(rename_all = "SCREAMING_SNAKE_CASE")] enum OrderStatus
DecodeOrderStatus(s) ==
    CASE s = "CREATED" -> Some("Created")
      [] s = "SAVED" -> Some("Saved")
      [] s = "APPROVED" -> Some("Approved")
      [] s = "VOIDED" -> Some("Voided")
      [] s = "COMPLETED" -> Some("Completed")
      [] OTHER -> NoneVal

\* struct LinkDescription
DecodeLink(l) ==
    IF Has(l, {"href"})
    THEN Some([href |-> l.href, rel |-> Opt(l, "rel"), method |-> Opt(l, "method")])
    ELSE NoneVal

\* res.json::<Order>()
DecodeOrder(body) ==
    IF /\ Has(body, {"id", "status", "links"})
       /\ DecodeOrderStatus(body.status).some
       /\ \A i \in DOMAIN body.links : DecodeLink(body.links[i]).some
    THEN [ok |-> TRUE,
          val |-> [create_time |-> Opt(body, "create_time"),
                   update_time |-> Opt(body, "update_time"),
                   id |-> body.id,
                   payment_source |-> Opt(body, "payment_source"),
                   intent |-> Opt(body, "intent"),
                   payer |-> Opt(body, "payer"),
                   purchase_units |-> Opt(body, "purchase_units"),
                   status |-> DecodeOrderStatus(body.status).val,
                   links |-> [i \in DOMAIN body.links |-> DecodeLink(body.links[i]).val]]]
    ELSE [ok |-> FALSE]

\* res.json::<InvoiceList>(); the lists the API answers with here have no items
DecodeInvoiceList(body) ==
    IF /\ Has(body, {"total_items", "total_pages", "items", "links"})
       /\ body.items = <<>>
       /\ \A i \in DOMAIN body.links : DecodeLink(body.links[i]).some
    THEN [ok |-> TRUE,
          val |-> [total_items |-> body.total_items, total_pages |-> body.total_pages,
                   items |-> <<>>,
                   links |-> [i \in DOMAIN body.links |-> DecodeLink(body.links[i]).val]]]
    ELSE [ok |-> FALSE]

\* a response without content, and the JSON text null
EmptyBody == [raw |-> ""]
NullJson == [raw |-> "null"]

\* res.json::<()>(): serde_json reads () from null; no text at all is an
\* unexpected end of input
DecodeUnit(body) == IF body = NullJson THEN [ok |-> TRUE, val |-> Unit] ELSE [ok |-> FALSE]

\* res.json::<E::Response>()
DecodeResponse(response, body) ==
    CASE response = "Order" -> DecodeOrder(body)
      [] response = "InvoiceList" -> DecodeInvoiceList(body)
      [] response = "()" -> DecodeUnit(body)

Link(rel, method) ==
    [href |-> "https://api.paypal.com/v2/checkout/orders/5O190127TN364715T",
     rel |-> rel, method |-> method]

\* the body of tests/resources/create_order_response.json: status CREATED, 4 links
OrderJson(status) ==
    [id |-> "5O190127TN364715T", status |-> status, intent |-> "AUTHORIZE",
     links |-> <<Link("self", "GET"), Link("approve", "GET"),
                 Link("update", "PATCH"), Link("capture", "POST")>>]

\* an order body without its status
OrderJsonNoStatus == [id |-> "5O190127TN364715T", links |-> <<>>]

\* an empty page of invoices
InvoiceListJson == [total_items |-> 0, total_pages |-> 0, items |-> <<>>, links |-> <<>>]

ApiBodies ==
    {OrderJson("CREATED"), OrderJson("created"), OrderJsonNoStatus, InvoiceListJson,
     ErrorJson, NotJson}

ApiStatuses == {201, 422}

(***************************************************************************)
(* Currency and Country (src/src/data/common.rs, src/src/countries.rs):    *)
(* a value of the enum is its discriminant, the position of the variant in *)
(* the declaration.                                                        *)
(***************************************************************************)
\* enum Currency: the variants in the order of the declaration
CurrencyNames ==
    <<"AUD", "BRL", "CAD", "CNY", "CZK", "DKK", "EUR", "HKD", "HUF", "INR", "ILS",
      "JPY", "MYR", "MXN", "TWD", "NZD", "NOK", "PHP", "PLN", "GBP", "RUB", "SGD",
      "SEK", "CHF", "THB", "USD">>

Currency == 1..Len(CurrencyNames)

\* Self::<name>
CurrencyVariant(name) == CHOOSE c \in Currency : CurrencyNames[c] = name

\* Display for Currency: Debug::fmt, the name of the variant
Currency_to_string(c) == CurrencyNames[c]

InvalidCurrencyError(s) == [kind |-> "InvalidCurrencyError", input |-> s]

\* the arms of the match in Currency::from_str, "s" => Ok(Self::v) as <<s, v>>
CurrencyArms ==
    <<<<"AUD", "AUD">>, <<"BRL", "BRL">>, <<"CAD", "CAD">>, <<"CNY", "CNY">>, <<"CZK",
      "CZK">>, <<"DKK", "DKK">>, <<"EUR", "EUR">>, <<"HKD", "HKD">>, <<"HUF", "HUF">>,
      <<"INR", "INR">>, <<"ILS", "ILS">>, <<"JPY", "JPY">>, <<"MYR", "MYR">>, <<"MXN",
      "MXN">>, <<"NOK", "NOK">>, <<"PHP", "PHP">>, <<"PLN", "PLN">>, <<"GBP", "GBP">>,
      <<"RUB", "RUB">>, <<"SGD", "SGD">>, <<"SEK", "SGD">>, <<"CHF", "CHF">>, <<"THB",
      "THB">>, <<"USD", "USD">>>>

\* FromStr for Currency: the first arm that matches, or the error with the input
Currency_from_str(s) ==
    IF \E i \in DOMAIN CurrencyArms : CurrencyArms[i][1] = s
    THEN LET i == CHOOSE j \in DOMAIN CurrencyArms :
                     /\ CurrencyArms[j][1] = s
                     /\ \A k \in 1..(j - 1) : CurrencyArms[k][1] # s
         IN Ok(CurrencyVariant(CurrencyArms[i][2]))
    ELSE InvalidCurrencyError(s)

\* enum Country: the variants in the order of the declaration
CountryNames ==
    <<"AL", "DZ", "AD", "AO", "AI", "AG", "AR", "AM", "AW", "AU", "AT", "AZ", "BS",
      "BH", "BB", "BY", "BE", "BZ", "BJ", "BM", "BT", "BO", "BA", "BW", "BR", "VG",
      "BN", "BG", "BF", "BI", "KH", "CM", "CA", "CV", "KY", "TD", "CL", "C2", "CO",
      "KM", "CG", "CD", "CK", "CR", "CI", "HR", "CY", "CZ", "DK", "DJ", "DM", "DO",
      "EC", "EG", "SV", "ER", "EE", "ET", "FK", "FO", "FJ", "FI", "FR", "GF", "PF",
      "GA", "GM", "GE", "DE", "GI", "GR", "GL", "GD", "GP", "GT", "GN", "GW", "GY",
      "HN", "HK", "HU", "IS", "IN", "ID", "IE", "IL", "IT", "JM", "JP", "JO", "KZ",
      "KE", "KI", "KW", "KG", "LA", "LV", "LS", "LI", "LT", "LU", "MK", "MG", "MW",
      "MY", "MV", "ML", "MT", "MH", "MQ", "MR", "MU", "YT", "MX", "FM", "MD", "MC",
      "MN", "ME", "MS", "MA", "MZ", "NA", "NR", "NP", "NL", "NC", "NZ", "NI", "NE",
      "NG", "NU", "NF", "NO", "OM", "PW", "PA", "PG", "PY", "PE", "PH", "PN", "PL",
      "PT", "QA", "RE", "RO", "RU", "RW", "WS", "SM", "ST", "SA", "SN", "RS", "SC",
      "SL", "SG", "SK", "SI", "SB", "SO", "ZA", "KR", "ES", "LK", "SH", "KN", "LC",
      "PM", "VC", "SR", "SJ", "SZ", "SE", "CH", "TW", "TJ", "TZ", "TH", "TG", "TO",
      "TT", "TN", "TM", "TC", "TV", "UG", "UA", "AE", "GB", "US", "UY", "VU", "VA",
      "VE", "VN", "WF", "YE", "ZM", "ZW">>

Country == 1..Len(CountryNames)

\* Self::<name>
CountryVariant(name) == CHOOSE k \in Country : CountryNames[k] = name

\* Display for Country: Debug::fmt, the name of the variant
Country_to_string(k) == CountryNames[k]

InvalidCountryError(s) == [kind |-> "InvalidCountryError", input |-> s]

\* the arms of the match in Country::from_str, "s" => Ok(Self::v) as <<s, v>>
CountryArms ==
    <<<<"AL", "AL">>, <<"DZ", "DZ">>, <<"AD", "AD">>, <<"AO", "AO">>, <<"AI", "AI">>,
      <<"AG", "AG">>, <<"AR", "AR">>, <<"AM", "AM">>, <<"AW", "AW">>, <<"AU", "AU">>,
      <<"AT", "AT">>, <<"AZ", "AZ">>, <<"BS", "BS">>, <<"BH", "BH">>, <<"BB", "BB">>,
      <<"BY", "BY">>, <<"BE", "BE">>, <<"BZ", "BZ">>, <<"BJ", "BJ">>, <<"BM", "BM">>,
      <<"BT", "BT">>, <<"BO", "BO">>, <<"BA", "BA">>, <<"BW", "BW">>, <<"BR", "BR">>,
      <<"VG", "VG">>, <<"BN", "BN">>, <<"BG", "BG">>, <<"BF", "BF">>, <<"BI", "BI">>,
      <<"KH", "KH">>, <<"CM", "CM">>, <<"CA", "CA">>, <<"CV", "CV">>, <<"KY", "KY">>,
      <<"TD", "TD">>, <<"CL", "CL">>, <<"C2", "C2">>, <<"CO", "CO">>, <<"KM", "KM">>,
      <<"CG", "CG">>, <<"CD", "CD">>, <<"CK", "CK">>, <<"CR", "CR">>, <<"CI", "CI">>,
      <<"HR", "HR">>, <<"CY", "CY">>, <<"CZ", "CZ">>, <<"DK", "DK">>, <<"DJ", "DJ">>,
      <<"DM", "DM">>, <<"DO", "DO">>, <<"EC", "EC">>, <<"EG", "EG">>, <<"SV", "SV">>,
      <<"ER", "ER">>, <<"EE", "EE">>, <<"ET", "ET">>, <<"FK", "FK">>, <<"FO", "FO">>,
      <<"FJ", "FJ">>, <<"FI", "FI">>, <<"FR", "FR">>, <<"GF", "GF">>, <<"PF", "PF">>,
      <<"GA", "GA">>, <<"GM", "GM">>, <<"GE", "GE">>, <<"DE", "DE">>, <<"GI", "GI">>,
      <<"GR", "GR">>, <<"GL", "GL">>, <<"GD", "GD">>, <<"GP", "GP">>, <<"GT", "GT">>,
      <<"GN", "GN">>, <<"GW", "GW">>, <<"GY", "GY">>, <<"HN", "HN">>, <<"HK", "HK">>,
      <<"HU", "HU">>, <<"IS", "IS">>, <<"IN", "IN">>, <<"ID", "ID">>, <<"IE", "IE">>,
      <<"IL", "IL">>, <<"IT", "IT">>, <<"JM", "JM">>, <<"JP", "JP">>, <<"JO", "JO">>,
      <<"KZ", "KZ">>, <<"KE", "KE">>, <<"KI", "KI">>, <<"KW", "KW">>, <<"KG", "KG">>,
      <<"LA", "LA">>, <<"LV", "LV">>, <<"LS", "LS">>, <<"LI", "LI">>, <<"LT", "LT">>,
      <<"LU", "LU">>, <<"MK", "MK">>, <<"MG", "MG">>, <<"MW", "MW">>, <<"MY", "MY">>,
      <<"MV", "MV">>, <<"ML", "ML">>, <<"MT", "MT">>, <<"MH", "MH">>, <<"MQ", "MQ">>,
      <<"MR", "MR">>, <<"MU", "MU">>, <<"YT", "YT">>, <<"MX", "MX">>, <<"FM", "FM">>,
      <<"MD", "MD">>, <<"MC", "MC">>, <<"MN", "MN">>, <<"ME", "ME">>, <<"MS", "MS">>,
      <<"MA", "MA">>, <<"MZ", "MZ">>, <<"NA", "NA">>, <<"NR", "NR">>, <<"NP", "NP">>,
      <<"NL", "NL">>, <<"NC", "NC">>, <<"NZ", "NZ">>, <<"NI", "NI">>, <<"NE", "NE">>,
      <<"NG", "NG">>, <<"NU", "NU">>, <<"NF", "NF">>, <<"NO", "NO">>, <<"OM", "OM">>,
      <<"PW", "PW">>, <<"PA", "PA">>, <<"PG", "PG">>, <<"PY", "PY">>, <<"PE", "PE">>,
      <<"PH", "PH">>, <<"PN", "PN">>, <<"PL", "PL">>, <<"PT", "PT">>, <<"QA", "QA">>,
      <<"RE", "RE">>, <<"RO", "RO">>, <<"RU", "RU">>, <<"RW", "RW">>, <<"WS", "WS">>,
      <<"SM", "SM">>, <<"ST", "ST">>, <<"SA", "SA">>, <<"SN", "SN">>, <<"RS", "RS">>,
      <<"SC", "SC">>, <<"SL", "SL">>, <<"SG", "SG">>, <<"SK", "SK">>, <<"SI", "SI">>,
      <<"SB", "SB">>, <<"SO", "SO">>, <<"ZA", "ZA">>, <<"KR", "KR">>, <<"ES", "ES">>,
      <<"LK", "LK">>, <<"SH", "SH">>, <<"KN", "KN">>, <<"LC", "LC">>, <<"PM", "PM">>,
      <<"VC", "VC">>, <<"SR", "SR">>, <<"SJ", "SJ">>, <<"SZ", "SZ">>, <<"SE", "SE">>,
      <<"CH", "CH">>, <<"TW", "TW">>, <<"TJ", "TJ">>, <<"TZ", "TZ">>, <<"TH", "TH">>,
      <<"TG", "TG">>, <<"TO", "TO">>, <<"TT", "TT">>, <<"TN", "TN">>, <<"TM", "TM">>,
      <<"TC", "TC">>, <<"TV", "TV">>, <<"UG", "UG">>, <<"UA", "UA">>, <<"AE", "AE">>,
      <<"GB", "GB">>, <<"US", "US">>, <<"UY", "UY">>, <<"VU", "VU">>, <<"VA", "VA">>,
      <<"VE", "VE">>, <<"VN", "VN">>, <<"WF", "WF">>, <<"YE", "YE">>, <<"ZM", "ZM">>,
      <<"ZW", "ZW">>>>

\* Country::from_str matching without regard to case
Country_from_str_ignore_case(s) ==
    LET upper(x) == CASE x = "es" -> "ES" [] x = "us" -> "US" [] OTHER -> x
    IN IF \E i \in DOMAIN CountryArms : CountryArms[i][1] = upper(s)
       THEN LET i == CHOOSE j \in DOMAIN CountryArms : CountryArms[j][1] = upper(s)
            IN Ok(CountryVariant(CountryArms[i][2]))
       ELSE InvalidCountryError(s)

\* FromStr for Country: the first arm that matches, or the error with the input
Country_from_str(s) ==
    IF \E i \in DOMAIN CountryArms : CountryArms[i][1] = s
    THEN LET i == CHOOSE j \in DOMAIN CountryArms :
                     /\ CountryArms[j][1] = s
                     /\ \A k \in 1..(j - 1) : CountryArms[k][1] # s
         IN Ok(CountryVariant(CountryArms[i][2]))
    ELSE InvalidCountryError(s)

\* strings that name no variant
InvalidNames == {"", "XX", "es", "usd", "EURO"}

(***************************************************************************)
(* State                                                                   *)
(***************************************************************************)
VARIABLES
    now,       \* the monotonic clock, in seconds
    env,       \* Client.env
    auth,      \* Client.auth
    call,      \* the call the client is running or ran last, and where it is suspended;
               \* call.expired is what access_token_expired() was when the call began,
               \* call.err the error send() failed with
    acquired   \* history: the instant and expires_in of the last token acquisition

vars == <<now, env, auth, call, acquired>>

NoCall ==
    [op |-> "none", pc |-> "done", result |-> NoneVal, nsent |-> 0, req |-> NoneVal,
     res |-> NoneVal, err |-> NoneVal, ep |-> NoneVal, hp |-> NoneVal, expired |-> TRUE]

\* no call is suspended: the client can be borrowed for the next call
Ready == call.pc = "done"

Return(result) == [call EXCEPT !.pc = "done", !.result = Some(result)]

\* Client::new
ClientNew(client_id, secret, e) ==
    /\ env = e
    /\ auth = [client_id |-> client_id, secret |-> secret,
               access_token |-> NoneVal, expires |-> NoneVal]

Init ==
    /\ now = 0
    /\ \E e \in PaypalEnv : ClientNew("clientid", "secret", e)
    /\ call = NoCall
    /\ acquired = NoneVal

\* Instant::elapsed
elapsed(instant) == now - instant

\* access_token_expired with the comparison turned around
access_token_expired_reversed ==
    IF auth.expires.some
    THEN elapsed(auth.expires.val[1]) <= auth.expires.val[2]
    ELSE TRUE

\* access_token_expired with a strict comparison
access_token_expired_strict ==
    IF auth.expires.some
    THEN elapsed(auth.expires.val[1]) > auth.expires.val[2]
    ELSE TRUE

\* Client::access_token_expired
access_token_expired ==
    IF auth.expires.some
    THEN elapsed(auth.expires.val[1]) >= auth.expires.val[2]
    ELSE TRUE

\* a caller asks access_token_expired()
call_access_token_expired ==
    /\ Ready
    /\ call' = [NoCall EXCEPT !.op = "access_token_expired",
                              !.result = Some(Ok(access_token_expired)),
                              !.expired = access_token_expired]
    /\ UNCHANGED <<now, env, auth, acquired>>

\* the request get_access_token builds
TokenRequest ==
    [method |-> "POST",
     url |-> make_url(env, "/v1/oauth2/token").url,
     headers |-> << <<"Authorization", basic_auth(auth.client_id, auth.secret)>>,
                    <<"Content-Type", "x-www-form-urlencoded">>,
                    <<"Accept", "application/json">> >>,
     body |-> Some("grant_type=client_credentials")]

\* get_access_token, the token is not expired: return Ok(()) at once
get_access_token_cached ==
    /\ Ready
    /\ ~access_token_expired
    /\ call' = [NoCall EXCEPT !.op = "get_access_token", !.result = Some(Ok(Unit)),
                              !.expired = access_token_expired]
    /\ UNCHANGED <<now, env, auth, acquired>>

\* get_access_token, the token is expired: build the request and send it
get_access_token_send ==
    /\ Ready
    /\ access_token_expired
    /\ call' = [NoCall EXCEPT !.op = "get_access_token", !.pc = "send", !.nsent = 1,
                              !.req = Some(TokenRequest),
                              !.expired = access_token_expired]
    /\ UNCHANGED <<now, env, auth, acquired>>

\* send().await fails: map_err(ResponseError::HttpError)?
get_access_token_send_failed(cause) ==
    /\ call.op = "get_access_token"
    /\ call.pc = "send"
    /\ call' = [Return(HttpError(cause)) EXCEPT !.err = Some(cause)]
    /\ UNCHANGED <<now, env, auth, acquired>>

\* send().await returns the response
get_access_token_response(status, body) ==
    /\ call.op = "get_access_token"
    /\ call.pc = "send"
    /\ call' = [call EXCEPT !.pc = "json", !.res = Some([status |-> status, body |-> body])]
    /\ UNCHANGED <<now, env, auth, acquired>>

\* get_access_token_finish taking expires_in for the nanoseconds of the Duration
get_access_token_finish_nanos ==
    /\ call.op = "get_access_token"
    /\ call.pc = "json"
    /\ LET res == call.res.val
       IN IF is_success(res.status)
          THEN LET token == DecodeAccessToken(res.body)
               IN IF token.ok
                  THEN /\ auth' = [auth EXCEPT
                                     !.expires = Some(<<now, 0>>),
                                     !.access_token = Some(token.val)]
                       /\ acquired' = Some([at |-> now, expires_in |-> res.body.expires_in])
                       /\ call' = Return(Ok(Unit))
                  ELSE /\ call' = Return(HttpError("decode"))
                       /\ UNCHANGED <<auth, acquired>>
          ELSE LET err == DecodePaypalError(res.body)
               IN /\ call' = Return(IF err.ok THEN ApiError(err.val)
                                    ELSE HttpError("decode"))
                  /\ UNCHANGED <<auth, acquired>>
    /\ UNCHANGED <<now, env>>

\* get_access_token storing the expiry and returning before it stores the token
get_access_token_finish_expires_only ==
    /\ call.op = "get_access_token"
    /\ call.pc = "json"
    /\ LET res == call.res.val
       IN IF is_success(res.status)
          THEN LET token == DecodeAccessToken(res.body)
               IN IF token.ok
                  THEN /\ auth' = [auth EXCEPT
                                     !.expires = Some(<<now, token.val.expires_in>>)]
                       /\ acquired' = Some([at |-> now, expires_in |-> res.body.expires_in])
                       /\ call' = Return(Ok(Unit))
                  ELSE /\ call' = Return(HttpError("decode"))
                       /\ UNCHANGED <<auth, acquired>>
          ELSE LET err == DecodePaypalError(res.body)
               IN /\ call' = Return(IF err.ok THEN ApiError(err.val)
                                    ELSE HttpError("decode"))
                  /\ UNCHANGED <<auth, acquired>>
    /\ UNCHANGED <<now, env>>

\* get_access_token forgetting the cached token when the answer is not a success
get_access_token_finish_clear_on_error ==
    /\ call.op = "get_access_token"
    /\ call.pc = "json"
    /\ LET res == call.res.val
       IN IF is_success(res.status)
          THEN LET token == DecodeAccessToken(res.body)
               IN IF token.ok
                  THEN /\ auth' = [auth EXCEPT
                                     !.expires = Some(<<now, token.val.expires_in>>),
                                     !.access_token = Some(token.val)]
                       /\ acquired' = Some([at |-> now, expires_in |-> res.body.expires_in])
                       /\ call' = Return(Ok(Unit))
                  ELSE /\ call' = Return(HttpError("decode"))
                       /\ UNCHANGED <<auth, acquired>>
          ELSE LET err == DecodePaypalError(res.body)
               IN /\ call' = Return(IF err.ok THEN ApiError(err.val)
                                    ELSE HttpError("decode"))
                  /\ auth' = [auth EXCEPT !.access_token = NoneVal, !.expires = NoneVal]
                  /\ UNCHANGED acquired
    /\ UNCHANGED <<now, env>>

\* the rest of get_access_token, once res.json().await has read the body
get_access_token_finish ==
    /\ call.op = "get_access_token"
    /\ call.pc = "json"
    /\ LET res == call.res.val
       IN IF is_success(res.status)
          THEN LET token == DecodeAccessToken(res.body)
               IN IF token.ok
                  THEN /\ auth' = [auth EXCEPT
                                     !.expires = Some(<<now, token.val.expires_in>>),
                                     !.access_token = Some(token.val)]
                       /\ acquired' = Some([at |-> now, expires_in |-> res.body.expires_in])
                       /\ call' = Return(Ok(Unit))
                  ELSE /\ call' = Return(HttpError("decode"))
                       /\ UNCHANGED <<auth, acquired>>
          ELSE LET err == DecodePaypalError(res.body)
               IN /\ call' = Return(IF err.ok THEN ApiError(err.val)
                                    ELSE HttpError("decode"))
                  /\ UNCHANGED <<auth, acquired>>
    /\ UNCHANGED <<now, env>>

\* bearer without the scheme in front of the token
bearer_no_scheme(headers) ==
    IF auth.access_token.some
    THEN append(headers, "Authorization", auth.access_token.val.access_token)
    ELSE headers

\* setup_headers falling back on the Basic credentials when no token is cached
bearer_or_basic(headers) ==
    IF auth.access_token.some
    THEN append(headers, "Authorization", "Bearer " \o auth.access_token.val.access_token)
    ELSE append(headers, "Authorization", basic_auth(auth.client_id, auth.secret))

\* setup_headers: Authorization, when a token is cached
bearer(headers) ==
    IF auth.access_token.some
    THEN append(headers, "Authorization", "Bearer " \o auth.access_token.val.access_token)
    ELSE headers

\* auth_assertion signing with the client id for a key
auth_assertion_wrong_key(headers, header_params) ==
    IF header_params.merchant_payer_id.some
    THEN LET claims == [iss |-> auth.client_id,
                        payer_id |-> header_params.merchant_payer_id.val]
             token == jsonwebtoken_encode("HS256", claims, auth.client_id)
             encoded_token == base64_encode(token)
         IN append(headers, "PayPal-Auth-Assertion", encoded_token)
    ELSE headers

\* setup_headers: PayPal-Auth-Assertion, when a merchant payer id is given
auth_assertion(headers, header_params) ==
    IF header_params.merchant_payer_id.some
    THEN LET claims == [iss |-> auth.client_id,
                        payer_id |-> header_params.merchant_payer_id.val]
             token == jsonwebtoken_encode("HS256", claims, auth.secret)
             encoded_token == base64_encode(token)
         IN append(headers, "PayPal-Auth-Assertion", encoded_token)
    ELSE headers

\* setup_headers: the headers that pass a caller's value through
\* a header appended whether or not the caller gave a value
optional_always(headers, name, value) ==
    append(headers, name, IF value.some THEN value.val ELSE "")

\* if let Some(value) = header_params.<field> { headers.append(name, value) }
optional(headers, name, value) ==
    IF value.some THEN append(headers, name, value.val) ELSE headers

\* Client::setup_headers
setup_headers(header_params) ==
    LET h1 == append(<<>>, "Accept", "application/json")
        h2 == bearer(h1)
        h3 == auth_assertion(h2, header_params)
        h4 == optional(h3, "PayPal-Client-Metadata-Id", header_params.client_metadata_id)
        h5 == optional(h4, "PayPal-Partner-Attribution-Id",
                       header_params.partner_attribution_id)
        h6 == optional(h5, "PayPal-Request-Id", header_params.request_id)
        h7 == append(h6, "Prefer", "return=representation")
    IN optional(h7, "Content-Type", header_params.content_type)

\* RequestBuilder::json inserting Content-Type: application/json over the
\* Content-Type the request has
json_insert(request, body) ==
    [request EXCEPT
       !.headers = append(SelectSeq(@, LAMBDA h : h[1] # "Content-Type"),
                          "Content-Type", "application/json"),
       !.body = Some(serde_json_to_vec(body))]

\* RequestBuilder::json: the body, and Content-Type: application/json unless the
\* request has a Content-Type already
json(request, body) ==
    [request EXCEPT
       !.headers = IF HasHeader(request.headers, "Content-Type") THEN @
                   ELSE append(@, "Content-Type", "application/json"),
       !.body = Some(serde_json_to_vec(body))]

\* the request execute_ext builds from a url that passed make_url
BuildRequest(e, headers, url0) ==
    LET url == IF e.query.some
               THEN url0 \o serde_qs_to_string(SerializeQuery(e.query.val)) ELSE url0
        request == [method |-> e.method, url |-> url,
                    headers |-> setup_headers(headers), body |-> NoneVal]
    IN IF e.body.some THEN json(request, e.body.val) ELSE request

\* execute_ext up to request.send(): make_url panics, or the request is sent
execute_ext(e, headers) ==
    /\ Ready
    /\ LET url == make_url(env, e.relative_path)
           started == [NoCall EXCEPT !.op = "execute_ext", !.ep = Some(e),
                                     !.hp = Some(headers),
                                     !.expired = access_token_expired]
       IN IF url.panic
          THEN call' = [started EXCEPT !.result = Some([kind |-> "Panic"])]
          ELSE call' = [started EXCEPT !.pc = "send", !.nsent = 1,
                                       !.req = Some(BuildRequest(e, headers, url.url))]
    /\ UNCHANGED <<now, env, auth, acquired>>

\* Client::execute
execute(e) == execute_ext(e, HeaderParamsDefault)

\* execute_ext sending the request again when send() fails
execute_ext_send_failed_retry(cause) ==
    /\ call.op = "execute_ext"
    /\ call.pc = "send"
    /\ call' = IF call.nsent < 2 THEN [call EXCEPT !.nsent = @ + 1]
               ELSE [Return(HttpError(cause)) EXCEPT !.err = Some(cause)]
    /\ UNCHANGED <<now, env, auth, acquired>>

\* request.send().await? fails
execute_ext_send_failed(cause) ==
    /\ call.op = "execute_ext"
    /\ call.pc = "send"
    /\ call' = [Return(HttpError(cause)) EXCEPT !.err = Some(cause)]
    /\ UNCHANGED <<now, env, auth, acquired>>

\* request.send().await? returns the response
execute_ext_response(status, body) ==
    /\ call.op = "execute_ext"
    /\ call.pc = "send"
    /\ call' = [call EXCEPT !.pc = "json", !.res = Some([status |-> status, body |-> body])]
    /\ UNCHANGED <<now, env, auth, acquired>>

\* execute_ext with the body read as E::Response whatever the status
execute_ext_finish_no_status_check ==
    /\ call.op = "execute_ext"
    /\ call.pc = "json"
    /\ LET response_body == DecodeResponse(call.ep.val.response, call.res.val.body)
       IN call' = Return(IF response_body.ok THEN Ok(response_body.val)
                         ELSE HttpError("decode"))
    /\ UNCHANGED <<now, env, auth, acquired>>

\* execute_ext dropping the cached token when the API answers with an error
execute_ext_finish_invalidate ==
    /\ call.op = "execute_ext"
    /\ call.pc = "json"
    /\ LET res == call.res.val
       IN IF is_success(res.status)
          THEN LET response_body == DecodeResponse(call.ep.val.response, res.body)
               IN /\ call' = Return(IF response_body.ok THEN Ok(response_body.val)
                                    ELSE HttpError("decode"))
                  /\ auth' = auth
          ELSE LET err == DecodePaypalError(res.body)
               IN /\ call' = Return(IF err.ok THEN ApiError(err.val)
                                    ELSE HttpError("decode"))
                  /\ auth' = [auth EXCEPT !.access_token = NoneVal, !.expires = NoneVal]
    /\ UNCHANGED <<now, env, acquired>>

\* the rest of execute_ext, once res.json().await has read the body
execute_ext_finish ==
    /\ call.op = "execute_ext"
    /\ call.pc = "json"
    /\ LET res == call.res.val
       IN IF is_success(res.status)
          THEN LET response_body == DecodeResponse(call.ep.val.response, res.body)
               IN call' = Return(IF response_body.ok THEN Ok(response_body.val)
                                 ELSE HttpError("decode"))
          ELSE LET err == DecodePaypalError(res.body)
               IN call' = Return(IF err.ok THEN ApiError(err.val)
                                 ELSE HttpError("decode"))
    /\ UNCHANGED <<now, env, auth, acquired>>

\* the caller drops the future of the suspended call, and with it the response
\* the future held
cancel ==
    /\ call.pc \in {"send", "json"}
    /\ call' = [call EXCEPT !.pc = "done", !.result = NoneVal, !.res = NoneVal]
    /\ UNCHANGED <<now, env, auth, acquired>>

\* the clock advances
Tick ==
    /\ now < MaxTime
    /\ now' = now + 1
    /\ UNCHANGED <<env, auth, call, acquired>>

Next ==
    \/ call_access_token_expired
    \/ get_access_token_cached
    \/ get_access_token_send
    \/ \E cause \in TransportCauses : get_access_token_send_failed(cause)
    \/ \E status \in TokenStatuses, body \in TokenBodies :
          get_access_token_response(status, body)
    \/ get_access_token_finish
    \/ \E e \in Endpoints, headers \in HeaderParamsInputs : execute_ext(e, headers)
    \/ \E e \in Endpoints \cup InvoiceEndpoints : execute(e)
    \/ \E cause \in TransportCauses : execute_ext_send_failed(cause)
    \/ \E status \in ApiStatuses, body \in ApiBodies : execute_ext_response(status, body)
    \/ execute_ext_finish
    \/ cancel
    \/ Tick

Spec == Init /\ [][Next]_vars

(***************************************************************************)
(* Currency and Country as a caller uses them: to_string on a value, then  *)
(* from_str on the string it returned or on a string from elsewhere.       *)
(* call.of is the value whose to_string gave the string that is parsed.    *)
(***************************************************************************)
\* the value the string s came from, when the call before was its to_string
StringOf(op, s) ==
    IF call.op = op /\ call.result.some /\ call.result.val = s
    THEN Some(call.value) ELSE NoneVal

\* c.to_string()
call_Currency_to_string(c) ==
    /\ call' = [op |-> "Currency::to_string", pc |-> "done", value |-> c,
                result |-> Some(Currency_to_string(c))]
    /\ UNCHANGED <<now, env, auth, acquired>>

\* Currency::from_str(s)
call_Currency_from_str(s) ==
    /\ call' = [op |-> "Currency::from_str", pc |-> "done", s |-> s,
                of |-> StringOf("Currency::to_string", s),
                result |-> Some(Currency_from_str(s))]
    /\ UNCHANGED <<now, env, auth, acquired>>

\* k.to_string()
call_Country_to_string(k) ==
    /\ call' = [op |-> "Country::to_string", pc |-> "done", value |-> k,
                result |-> Some(Country_to_string(k))]
    /\ UNCHANGED <<now, env, auth, acquired>>

\* Country::from_str(s)
call_Country_from_str(s) ==
    /\ call' = [op |-> "Country::from_str", pc |-> "done", s |-> s,
                of |-> StringOf("Country::to_string", s),
                result |-> Some(Country_from_str(s))]
    /\ UNCHANGED <<now, env, auth, acquired>>

\* the strings a caller parses: the names of the variants and strings that name none
CurrencyStrings == {CurrencyNames[c] : c \in Currency} \cup InvalidNames
CountryStrings == {CountryNames[k] : k \in Country} \cup InvalidNames

NextParse ==
    \/ \E c \in Currency : call_Currency_to_string(c)
    \/ \E s \in CurrencyStrings : call_Currency_from_str(s)
    \/ \E k \in Country : call_Country_to_string(k)
    \/ \E s \in CountryStrings : call_Country_from_str(s)

SpecParse == Init /\ [][NextParse]_vars

(***************************************************************************)
(* The token calls against a provider that stamps what it issues: the      *)
(* nonce of a token is the instant the provider issued it, the instant     *)
(* send().await returns the response. The body is read, and                *)
(* Instant::now() taken, when get_access_token resumes after that.         *)
(***************************************************************************)
IssuedTokenJson(n, at) == [TokenJson("TESTBEARERTOKEN", n) EXCEPT !.nonce = at]

NextLatency ==
    \/ call_access_token_expired
    \/ get_access_token_cached
    \/ get_access_token_send
    \/ \E n \in 0..MaxExpires : get_access_token_response(200, IssuedTokenJson(n, now))
    \/ get_access_token_finish
    \/ cancel
    \/ Tick

SpecLatency == Init /\ [][NextLatency]_vars

(***************************************************************************)
(* The endpoints whose Response is (), against an API that answers a       *)
(* deletion with 204 and no content.                                       *)
(***************************************************************************)
UnitEndpoints == {DeleteInvoice("INV2-Z56S-5LLA-Q52L-CPZ5")}

UnitStatuses == {200, 204, 422}

UnitBodies == {EmptyBody, NullJson, ErrorJson}

NextUnit ==
    \/ \E e \in UnitEndpoints : execute(e)
    \/ \E cause \in TransportCauses : execute_ext_send_failed(cause)
    \/ \E status \in UnitStatuses, body \in UnitBodies : execute_ext_response(status, body)
    \/ execute_ext_finish
    \/ cancel
    \/ Tick

SpecUnit == Init /\ [][NextUnit]_vars

(***************************************************************************)
(* Two clients that differ only in their secret: Client and Auth derive    *)
(* Clone and their fields are pub, so a caller makes the second client as  *)
(* Client { auth: Auth { secret, ..auth.clone() }, ..client.clone() }. The *)
(* step below goes from one client to the other; what the other client     *)
(* would send is what the request operators give in the next state.        *)
(***************************************************************************)
Secrets == {"secret", "hunter2"}

\* the client with this secret and everything else of the current client
clone_with_secret(secret) ==
    /\ Ready
    /\ secret # auth.secret
    /\ auth' = [auth EXCEPT !.secret = secret]
    /\ call' = NoCall
    /\ UNCHANGED <<now, env, acquired>>

NextSecret ==
    \/ get_access_token_send
    \/ \E n \in 0..MaxExpires :
          get_access_token_response(200, TokenJson("TESTBEARERTOKEN", n))
    \/ get_access_token_finish
    \/ \E e \in Endpoints \cup InvoiceEndpoints, headers \in HeaderParamsInputs :
          execute_ext(e, headers)
    \/ cancel
    \/ \E secret \in Secrets : clone_with_secret(secret)

SpecSecret == Init /\ [][NextSecret]_vars

(***************************************************************************)
(* Several calls on one client. The future of an async fn borrows the      *)
(* client as its signature says, from the call until the future completes  *)
(* or is dropped: get_access_token(&mut self), execute_ext(&self). Here    *)
(* call[s] is the future in slot s, with the fields of a call.             *)
(***************************************************************************)
Slots == 1..MaxCalls

\* the future in slot s is neither completed nor dropped: its borrow is live
InFlight(s) == call[s].pc # "done"

\* &mut self of a method that would take &self
BorrowMut_shared ==
    \A t \in Slots : InFlight(t) => call[t].op # "get_access_token"

\* &mut self can be taken: no borrow of the client is live
BorrowMut == \A t \in Slots : ~InFlight(t)

\* &self can be taken: no &mut borrow of the client is live
BorrowShared ==
    \A t \in Slots : InFlight(t) => call[t].op # "get_access_token"

InitBorrow ==
    /\ now = 0
    /\ ClientNew("clientid", "secret", [kind |-> "Sandbox"])
    /\ call = [s \in Slots |-> NoCall]
    /\ acquired = NoneVal

\* client.get_access_token() put in slot s: Ok at once, or the request is sent
spawn_get_access_token(s) ==
    /\ BorrowMut
    /\ call' = [call EXCEPT ![s] =
                  IF access_token_expired
                  THEN [NoCall EXCEPT !.op = "get_access_token", !.pc = "send",
                                      !.nsent = 1, !.req = Some(TokenRequest)]
                  ELSE [NoCall EXCEPT !.op = "get_access_token",
                                      !.result = Some(Ok(Unit)), !.expired = FALSE]]
    /\ UNCHANGED <<now, env, auth, acquired>>

\* client.execute(&e) put in slot s, up to request.send()
spawn_execute(s, e) ==
    /\ BorrowShared
    /\ ~InFlight(s)
    /\ call' = [call EXCEPT ![s] =
                  [NoCall EXCEPT !.op = "execute_ext", !.pc = "send", !.nsent = 1,
                                 !.ep = Some(e), !.hp = Some(HeaderParamsDefault),
                                 !.req = Some(BuildRequest(e, HeaderParamsDefault,
                                                 make_url(env, e.relative_path).url)),
                                 !.expired = access_token_expired]]
    /\ UNCHANGED <<now, env, auth, acquired>>

\* send().await of the future in slot s returns the response
poll_send(s, status, body) ==
    /\ call[s].pc = "send"
    /\ call' = [call EXCEPT ![s].pc = "json",
                            ![s].res = Some([status |-> status, body |-> body])]
    /\ UNCHANGED <<now, env, auth, acquired>>

\* what a call returns for the response it read, by the schema it expects
ResultOf(c) ==
    LET res == c.res.val
        decoded == IF ~is_success(res.status) THEN DecodePaypalError(res.body)
                   ELSE IF c.op = "get_access_token" THEN DecodeAccessToken(res.body)
                   ELSE DecodeResponse(c.ep.val.response, res.body)
    IN IF ~decoded.ok THEN HttpError("decode")
       ELSE IF ~is_success(res.status) THEN ApiError(decoded.val)
       ELSE IF c.op = "get_access_token" THEN Ok(Unit)
       ELSE Ok(decoded.val)

\* json().await of the future in slot s returns and the future completes;
\* get_access_token stores the token it decoded
poll_json(s) ==
    /\ call[s].pc = "json"
    /\ call' = [call EXCEPT ![s].pc = "done", ![s].result = Some(ResultOf(call[s]))]
    /\ IF call[s].op = "get_access_token" /\ ResultOf(call[s]).kind = "Ok"
       THEN LET token == DecodeAccessToken(call[s].res.val.body).val
            IN /\ auth' = [auth EXCEPT !.expires = Some(<<now, token.expires_in>>),
                                       !.access_token = Some(token)]
               /\ acquired' = Some([at |-> now, expires_in |-> token.expires_in])
       ELSE UNCHANGED <<auth, acquired>>
    /\ UNCHANGED <<now, env>>

\* the caller drops the future in slot s
drop_future(s) ==
    /\ InFlight(s)
    /\ call' = [call EXCEPT ![s].pc = "done", ![s].result = NoneVal, ![s].res = NoneVal]
    /\ UNCHANGED <<now, env, auth, acquired>>

\* what the provider and the API answer here
BorrowAnswers ==
    {<<200, TokenJson(t, n)>> : t \in TokenStrings, n \in 0..1}
        \cup {<<201, OrderJson("CREATED")>>, <<401, ErrorJson>>}

NextBorrow ==
    \/ \E s \in Slots : spawn_get_access_token(s)
    \/ \E s \in Slots : spawn_execute(s, ShowOrderDetails("5O190127TN364715T"))
    \/ \E s \in Slots, answer \in BorrowAnswers : poll_send(s, answer[1], answer[2])
    \/ \E s \in Slots : poll_json(s)
    \/ \E s \in Slots : drop_future(s)

SpecBorrow == InitBorrow /\ [][NextBorrow]_vars

(***************************************************************************)
(* Properties                                                              *)
(***************************************************************************)
Headers == call.req.val.headers

\* the header occurs once, with this value
HeaderIs(name, value) ==
    /\ Cardinality({i \in DOMAIN Headers : Headers[i][1] = name}) = 1
    /\ HeaderValues(Headers, name) = {value}

\* an API request was built and sent by the current call
ApiRequestSent == call.op = "execute_ext" /\ call.req.some

\* the current get_access_token call returned after reading a response
TokenCallAnswered ==
    /\ call.op = "get_access_token"
    /\ call.pc = "done"
    /\ call.result.some
    /\ call.res.some

\* a step in which a caller begins get_access_token
BeginsGetAccessToken == Ready /\ call'.op = "get_access_token" /\ call' # call

\* fewer than expires_in seconds have passed since the last acquisition
WithinLifetime == acquired.some /\ now - acquired.val.at < acquired.val.expires_in

\* C1: no API request is sent carrying an Authorization header whose token
\* access_token_expired() reports as expired when the request is sent.
C1_NoExpiredTokenSent ==
    (ApiRequestSent /\ HasHeader(Headers, "Authorization")) => ~call.expired

\* C2: a get_access_token begun fewer than expires_in seconds after the last
\* successful acquisition returns Ok at once, sends nothing and leaves the token
\* and its expiry record as they are.
C2_TokenCaching ==
    [][(BeginsGetAccessToken /\ WithinLifetime) =>
          /\ call'.pc = "done"
          /\ call'.result = Some(Ok(Unit))
          /\ call'.nsent = 0
          /\ ~call'.req.some
          /\ auth' = auth
          /\ acquired' = acquired]_vars

C2_Witness ==
    /\ call.op = "get_access_token"
    /\ call.pc = "done"
    /\ call.result = Some(Ok(Unit))
    /\ call.nsent = 0
    /\ ~call.expired
    /\ acquired.some
    /\ now - acquired.val.at = 1
    /\ acquired.val.expires_in = 2

\* C3: a get_access_token that found the token expired or absent and was answered
\* with a success status and token JSON sent one request, returned Ok and cached
\* the received token with (acquisition instant, expires_in) as its expiry record.
C3_TokenRefresh ==
    (TokenCallAnswered /\ call.res.val.status \in 200..299
       /\ DOMAIN call.res.val.body = AccessTokenFields
       /\ call.res.val.body.expires_in \in Nat) =>
          LET body == call.res.val.body
          IN /\ call.expired
             /\ call.nsent = 1
             /\ call.result.val = Ok(Unit)
             /\ auth.access_token.some
             /\ \A k \in AccessTokenFields : auth.access_token.val[k] = body[k]
             /\ acquired.some
             /\ acquired.val.at <= now
             /\ auth.expires = Some(<<acquired.val.at, body.expires_in>>)

\* a token was cached, it expired, and the refresh replaced it by another one
C3_Witness ==
    /\ TokenCallAnswered
    /\ call.result.val = Ok(Unit)
    /\ call.res.val.status = 200
    /\ auth.access_token.val.access_token = "TOKEN2"
    /\ auth.expires = Some(<<2, 2>>)
    /\ now = 3

\* what the specification says access_token_expired() returns
ExpiredBySpec ==
    \/ ~acquired.some
    \/ now - acquired.val.at >= acquired.val.expires_in

\* C4: access_token_expired() is true iff no token was ever acquired or at least
\* expires_in seconds have passed since the acquisition; calling it changes nothing.
C4_Expired ==
    /\ [](access_token_expired <=> ExpiredBySpec)
    /\ [][(Ready /\ call'.op = "access_token_expired" /\ call' # call) =>
             /\ call'.result = Some(Ok(access_token_expired))
             /\ UNCHANGED <<now, env, auth, acquired>>]_vars

\* asked exactly expires_in seconds after the acquisition, with expires_in > 0
C4_Witness ==
    /\ call.op = "access_token_expired"
    /\ call.result = Some(Ok(TRUE))
    /\ acquired.some
    /\ acquired.val.expires_in = 2
    /\ now - acquired.val.at = 2
    /\ access_token_expired

ErrorFieldsRequired == {"name", "details", "links"}
ErrorFieldsOptional == {"message", "debug_id", "error", "error_description"}

\* the payload carries exactly what the body says
CarriesPayload(payload, body) ==
    /\ \A k \in ErrorFieldsRequired : payload[k] = body[k]
    /\ \A k \in ErrorFieldsOptional :
          IF k \in DOMAIN body
          THEN payload[k].some /\ payload[k].val = body[k]
          ELSE ~payload[k].some

\* C5: a refreshing get_access_token answered with a non-success status and a
\* provider error body returns Err(ApiError) carrying that body, never Ok.
C5_TokenApiError ==
    (TokenCallAnswered /\ ~(call.res.val.status \in 200..299)
       /\ ErrorFieldsRequired \subseteq DOMAIN call.res.val.body) =>
          /\ call.result.val.kind = "ApiError"
          /\ CarriesPayload(call.result.val.payload, call.res.val.body)

C5_Witness ==
    /\ TokenCallAnswered
    /\ call.res.val.status = 401
    /\ call.res.val.body = ErrorJson
    /\ call.result.val.kind = "ApiError"
    /\ call.result.val.payload.name = "UNPROCESSABLE_ENTITY"

\* C6: every request get_access_token sends is a POST to <base>/v1/oauth2/token
\* with Basic credentials (client_id, secret), content type
\* application/x-www-form-urlencoded and body grant_type=client_credentials.
C6_TokenRequest ==
    (call.op = "get_access_token" /\ call.req.some) =>
        /\ call.req.val.method = "POST"
        /\ call.req.val.url = endpoint(env) \o "/v1/oauth2/token"
        /\ HeaderIs("Authorization",
                    "Basic " \o base64_encode(auth.client_id \o ":" \o auth.secret))
        /\ HeaderIs("Content-Type", "application/x-www-form-urlencoded")
        /\ call.req.val.body = Some("grant_type=client_credentials")

\* the call is execute_ext on a descriptor whose path does not begin with '/'
BadPathCall ==
    /\ call.op = "execute_ext"
    /\ LET path == call.ep.val.relative_path
       IN path # "/" \o SubSeq(path, 2, Len(path))

\* C7: execute_ext on a descriptor whose relative path does not begin with '/'
\* panics before a request is built or sent, returns no ResponseError and leaves
\* the token state as it is.
C7_BadPathPanics ==
    /\ [](BadPathCall =>
             /\ call.pc = "done"
             /\ call.result = Some([kind |-> "Panic"])
             /\ call.nsent = 0
             /\ ~call.req.some
             /\ ~call.res.some)
    /\ [][BadPathCall' => auth' = auth /\ acquired' = acquired]_vars

C7_Witness ==
    /\ BadPathCall
    /\ call.ep.val.relative_path = "v2/checkout/orders"
    /\ call.result = Some([kind |-> "Panic"])
    /\ auth.access_token.some

\* C8: a request built with the default HeaderParams has Accept: application/json,
\* no PayPal-Auth-Assertion, and Authorization: Bearer <cached access_token> when a
\* token is cached, no Authorization otherwise.
C8_DefaultHeaders ==
    (ApiRequestSent /\ call.hp.val = HeaderParamsDefault) =>
        /\ HeaderIs("Accept", "application/json")
        /\ ~HasHeader(Headers, "PayPal-Auth-Assertion")
        /\ IF auth.access_token.some
           THEN HeaderIs("Authorization", "Bearer " \o auth.access_token.val.access_token)
           ELSE ~HasHeader(Headers, "Authorization")

C8_Witness ==
    /\ ApiRequestSent
    /\ call.hp.val = HeaderParamsDefault
    /\ auth.access_token.some
    /\ HeaderIs("Authorization", "Bearer TESTBEARERTOKEN")

C8_WitnessNoToken ==
    /\ ApiRequestSent
    /\ call.hp.val = HeaderParamsDefault
    /\ ~auth.access_token.some

\* the auth assertion of (client_id, payer_id, secret): the base64 of the compact
\* token of claims {iss, payer_id} signed HS256 with the secret
AuthAssertionOf(client_id, payer_id, secret) ==
    base64_encode(jsonwebtoken_encode("HS256", [iss |-> client_id, payer_id |-> payer_id],
                                      secret))

\* C9: a request carries PayPal-Auth-Assertion iff HeaderParams has a merchant payer
\* id, and its value is the auth assertion of (client_id, merchant payer id, secret).
C9_AuthAssertion ==
    ApiRequestSent =>
        IF call.hp.val.merchant_payer_id.some
        THEN HeaderIs("PayPal-Auth-Assertion",
                      AuthAssertionOf(auth.client_id, call.hp.val.merchant_payer_id.val,
                                      auth.secret))
        ELSE ~HasHeader(Headers, "PayPal-Auth-Assertion")

C9_Witness ==
    /\ ApiRequestSent
    /\ call.hp.val.merchant_payer_id = Some("MERCHANT1")
    /\ HasHeader(Headers, "PayPal-Auth-Assertion")

\* the name of an order status in the API's JSON and in OrderStatus
OrderStatusNames ==
    {<<"CREATED", "Created">>, <<"SAVED", "Saved">>, <<"APPROVED", "Approved">>,
     <<"VOIDED", "Voided">>, <<"COMPLETED", "Completed">>}

\* the body is an order as the API sends it
IsOrderJson(body) ==
    /\ {"id", "status", "links"} \subseteq DOMAIN body
    /\ \E n \in OrderStatusNames : n[1] = body.status

\* the current execute_ext call returned after reading a response
ApiCallAnswered ==
    /\ call.op = "execute_ext"
    /\ call.pc = "done"
    /\ call.result.some
    /\ call.res.some

\* C10: execute_ext answered with a 2xx status and an order body returns Ok(order)
\* whose fields are those of the body, never an error.
C10_SuccessPath ==
    (ApiCallAnswered /\ call.res.val.status \in 200..299
       /\ call.ep.val.response = "Order" /\ IsOrderJson(call.res.val.body)) =>
          LET body == call.res.val.body
              order == call.result.val.val
          IN /\ call.result.val.kind = "Ok"
             /\ order.id = body.id
             /\ <<body.status, order.status>> \in OrderStatusNames
             /\ order.intent = Some(body.intent)
             /\ ~order.payer.some
             /\ Len(order.links) = Len(body.links)
             /\ \A i \in DOMAIN body.links :
                   /\ order.links[i].href = body.links[i].href
                   /\ order.links[i].rel = Some(body.links[i].rel)
                   /\ order.links[i].method = Some(body.links[i].method)

\* 201 with the create-order fixture: status Created, 4 links
C10_Witness ==
    /\ ApiCallAnswered
    /\ call.res.val.status = 201
    /\ call.res.val.body = OrderJson("CREATED")
    /\ call.result.val.kind = "Ok"
    /\ call.result.val.val.status = "Created"
    /\ Len(call.result.val.val.links) = 4

\* the body is an error as the API sends it
IsErrorJson(body) == ErrorFieldsRequired \subseteq DOMAIN body

\* C11: execute_ext answered with a non-2xx status never returns Ok, and with an
\* error body it returns ApiError whose name and other fields are those of the body.
C11_FailurePath ==
    (ApiCallAnswered /\ call.res.val.status \notin 200..299) =>
        /\ call.result.val.kind # "Ok"
        /\ IsErrorJson(call.res.val.body) =>
              /\ call.result.val.kind = "ApiError"
              /\ call.result.val.payload.name = call.res.val.body.name
              /\ CarriesPayload(call.result.val.payload, call.res.val.body)

\* 422 with the UNPROCESSABLE_ENTITY body
C11_Witness ==
    /\ ApiCallAnswered
    /\ call.res.val.status = 422
    /\ call.res.val.body = ErrorJson
    /\ call.result.val.kind = "ApiError"
    /\ call.result.val.payload.name = "UNPROCESSABLE_ENTITY"

\* the body is a token as the identity service sends it
IsTokenJson(body) == AccessTokenFields \subseteq DOMAIN body

\* the body is a page of invoices as the API sends it
IsInvoiceListJson(body) == {"total_items", "total_pages", "items", "links"} \subseteq DOMAIN body

\* the current call returned after reading a response whose body is not of the
\* schema the call expects for the status
SchemaMismatch ==
    /\ call.pc = "done"
    /\ call.result.some
    /\ call.res.some
    /\ LET body == call.res.val.body
       IN IF call.res.val.status \in 200..299
          THEN CASE call.op = "get_access_token" -> ~IsTokenJson(body)
                 [] call.ep.val.response = "Order" -> ~IsOrderJson(body)
                 [] call.ep.val.response = "InvoiceList" -> ~IsInvoiceListJson(body)
          ELSE ~IsErrorJson(body)

\* C12 as stated: a body that does not match the expected schema is returned as an
\* error of a kind of its own, DecodeError, neither TransportError nor ApiError.
C12_DecodeErrorKind ==
    SchemaMismatch => call.result.val.kind = "DecodeError"

\* C12 amended: a body that does not match the expected schema is returned as
\* HttpError wrapping the decoding failure, the variant a failed send is returned
\* as too; it is never Ok, never ApiError, and the token state stays as it was.
C12_DecodeErrorIsHttpError ==
    SchemaMismatch =>
        /\ call.result.val = HttpError("decode")
        /\ call.result.val.kind = HttpError("connect").kind
        /\ call.op = "get_access_token" => (call.expired <=> access_token_expired)

\* 201 with status "created" where the schema has CREATED
C12_Witness ==
    /\ SchemaMismatch
    /\ call.op = "execute_ext"
    /\ call.res.val.status = 201
    /\ call.res.val.body = OrderJson("created")
    /\ call.result.val.kind = "HttpError"
    /\ call.result.val.cause = "decode"

\* C13: a send that fails, in get_access_token or in execute_ext, ends the call
\* with HttpError wrapping the failure of send unchanged; one request was sent and
\* no response is read or handled after the failure.
C13_TransportError ==
    call.err.some =>
        /\ call.op \in {"get_access_token", "execute_ext"}
        /\ call.pc = "done"
        /\ call.result.some
        /\ call.result.val.kind = "HttpError"
        /\ call.result.val.cause = call.err.val
        /\ call.err.val \in TransportCauses
        /\ ~call.res.some
        /\ call.nsent = 1

\* the token request timed out
C13_Witness ==
    /\ call.op = "get_access_token"
    /\ call.err = Some("timeout")
    /\ call.result.val.cause = "timeout"
    /\ ~auth.access_token.some

\* C14: a call sends at most one request, and a call that returned an error of the
\* transport, of the API or of decoding sent exactly one: nothing is sent again.
C14_NoRetry ==
    /\ call.nsent <= 1
    /\ (call.pc = "done" /\ call.result.some
          /\ call.result.val.kind \in {"ApiError", "HttpError"}) => call.nsent = 1
    /\ call.pc \in {"send", "json"} => call.nsent = 1

\* execute_ext returned the failure of its one send
C14_Witness ==
    /\ call.op = "execute_ext"
    /\ call.pc = "done"
    /\ call.err = Some("connect")
    /\ call.result.val.kind = "HttpError"
    /\ call.nsent = 1

\* C15: client_id and secret never change, and the token state changes only in the
\* step of get_access_token that stores the token of a 2xx answer; every step of
\* access_token_expired and of execute_ext (headers included) leaves it as it was.
C15_TokenStateIsolation ==
    [][/\ auth'.client_id = auth.client_id
       /\ auth'.secret = auth.secret
       /\ auth' # auth =>
             /\ call.op = "get_access_token"
             /\ call.pc = "json"
             /\ call.res.val.status \in 200..299
             /\ call'.result = Some(Ok(Unit))
       /\ call'.op \in {"execute_ext", "access_token_expired"} => auth' = auth]_vars

\* execute_ext returned ApiError and the client holds the token it acquired before
C15_Witness ==
    /\ ApiCallAnswered
    /\ call.result.val.kind = "ApiError"
    /\ acquired # NoneVal
    /\ auth.access_token.some
    /\ auth.expires = Some(<<acquired.val.at, acquired.val.expires_in>>)
    /\ HeaderIs("Authorization", "Bearer " \o auth.access_token.val.access_token)

\* C16: the request carries Content-Type: application/json when the endpoint has
\* a body and the caller gave no content_type; with a content_type it carries one
\* Content-Type, the caller's, also when there is a body; with neither it has none.
C16_ContentType ==
    ApiRequestSent =>
        LET content_type == call.hp.val.content_type
        IN /\ call.req.val.body.some = call.ep.val.body.some
           /\ IF content_type.some THEN HeaderIs("Content-Type", content_type.val)
              ELSE IF call.ep.val.body.some THEN HeaderIs("Content-Type", "application/json")
              ELSE ~HasHeader(Headers, "Content-Type")

\* CreateOrder, which has a body, sent with content_type text/plain
C16_Witness ==
    /\ ApiRequestSent
    /\ call.ep.val.body.some
    /\ call.hp.val.content_type = Some("text/plain")
    /\ HeaderIs("Content-Type", "text/plain")

\* C17: the request carries Prefer: return=minimal when HeaderParams.prefer is
\* Minimal and Prefer: return=representation when it is Representation, the default.
C17_Prefer ==
    ApiRequestSent =>
        HeaderIs("Prefer", IF call.hp.val.prefer = "Minimal" THEN "return=minimal"
                           ELSE "return=representation")

\* C18: PayPal-Client-Metadata-Id, PayPal-Partner-Attribution-Id and
\* PayPal-Request-Id are on the request exactly when this call's HeaderParams give
\* them, once and with the given value; the token request has none of them.
C18_OptionalHeaders ==
    /\ ApiRequestSent =>
          \A f \in {<<"PayPal-Client-Metadata-Id", call.hp.val.client_metadata_id>>,
                    <<"PayPal-Partner-Attribution-Id", call.hp.val.partner_attribution_id>>,
                    <<"PayPal-Request-Id", call.hp.val.request_id>>} :
             IF f[2].some THEN HeaderIs(f[1], f[2].val) ELSE ~HasHeader(Headers, f[1])
    /\ (call.op = "get_access_token" /\ call.req.some) =>
          \A name \in {"PayPal-Client-Metadata-Id", "PayPal-Partner-Attribution-Id",
                       "PayPal-Request-Id"} : ~HasHeader(Headers, name)

\* a request with the caller's PayPal-Request-Id and no metadata or partner id
C18_Witness ==
    /\ ApiRequestSent
    /\ call.hp.val.request_id = Some("TEST-1")
    /\ ~call.hp.val.client_metadata_id.some
    /\ HeaderIs("PayPal-Request-Id", "TEST-1")
    /\ ~HasHeader(Headers, "PayPal-Client-Metadata-Id")
    /\ ~HasHeader(Headers, "PayPal-Partner-Attribution-Id")

\* the base URL of the client's environment, as the claims state it
BaseUrl ==
    CASE env.kind = "Live" -> "https://api-m.paypal.com"
      [] env.kind = "Sandbox" -> "https://api-m.sandbox.paypal.com"
      [] env.kind = "Mock" -> env.url

StartsWith(s, prefix) == Len(s) >= Len(prefix) /\ SubSeq(s, 1, Len(prefix)) = prefix

Contains(s, part) ==
    \E i \in 1..(Len(s) - Len(part) + 1) : SubSeq(s, i, i + Len(part) - 1) = part

\* the current call is execute_ext on an endpoint with a query, and sent its request
QueryRequestSent == ApiRequestSent /\ call.ep.val.query.some

\* C19: a query whose optional fields are all unset adds nothing to the URL, which
\* is the base followed by the relative path; a field that is unset is not in the
\* URL at all, not even with an empty value, and a field that is set is.
C19_QueryOmission ==
    QueryRequestSent =>
        LET query == call.ep.val.query.val
            url == call.req.val.url
        IN /\ (\A k \in DOMAIN query : ~query[k].some) =>
                 url = BaseUrl \o call.ep.val.relative_path
           /\ \A k \in DOMAIN query : query[k].some <=> Contains(url, k \o "=")

\* ListInvoices with Query::default()
C19_Witness ==
    /\ QueryRequestSent
    /\ call.ep.val.query.val = QueryDefault
    /\ env.kind = "Sandbox"
    /\ call.req.val.url = "https://api-m.sandbox.paypal.com/v2/invoicing/invoices"

\* C20: the URL of every request begins with the base of the client's environment
\* (production for Live, sandbox for Sandbox, the given string for Mock) followed
\* by the relative path, /v1/oauth2/token for the token request, and is exactly
\* that for a request without a query; the environment of a client never changes,
\* so its token requests and API requests have the same base.
C20_BaseUrl ==
    /\ [](call.req.some =>
            LET url == call.req.val.url
            IN IF call.op = "get_access_token" THEN url = BaseUrl \o "/v1/oauth2/token"
               ELSE /\ StartsWith(url, BaseUrl \o call.ep.val.relative_path)
                    /\ ~call.ep.val.query.some =>
                          url = BaseUrl \o call.ep.val.relative_path)
    /\ [][env' = env]_vars

\* a Live client that holds a token sent ShowOrderDetails to the production host
C20_Witness ==
    /\ ApiRequestSent
    /\ env.kind = "Live"
    /\ auth.access_token.some
    /\ call.req.val.url = "https://api-m.paypal.com/v2/checkout/orders/5O190127TN364715T"

\* C21: the request has the method the endpoint declares; it has a body exactly
\* when the endpoint gives one, and the body is the JSON of that value; an endpoint
\* that keeps the default body() and query() sends no body and nothing after the path.
C21_MethodAndBody ==
    ApiRequestSent =>
        LET e == call.ep.val
            req == call.req.val
        IN /\ req.method = e.method
           /\ req.body.some <=> e.body.some
           /\ e = CreateOrder => (req.method = "POST" /\ req.body = Some(OrderPayloadJson))
           /\ ~e.query.some => req.url = BaseUrl \o e.relative_path

\* CreateOrder sent as a POST with the JSON of its payload
C21_Witness ==
    /\ ApiRequestSent
    /\ call.ep.val.name = "CreateOrder"
    /\ call.req.val.method = "POST"
    /\ call.req.val.body = Some("{intent:AUTHORIZE,purchase_units:[{amount:{currency_code:USD,value:100.00}}]}")

\* ShowOrderDetails, which keeps the defaults, sent as a GET without a body
C21_WitnessNoBody ==
    /\ ApiRequestSent
    /\ call.ep.val.name = "ShowOrderDetails"
    /\ call.req.val.method = "GET"
    /\ ~call.req.val.body.some

\* C22: for every Currency c, to_string() is the ISO code spelled like the variant
\* and from_str of it returns Ok(c).
C22_CurrencyRoundTrip ==
    (call.op = "Currency::from_str" /\ call.of.some) =>
        /\ call.s = CurrencyNames[call.of.val]
        /\ call.result.val = [kind |-> "Ok", val |-> call.of.val]

\* C23: for every Country k, from_str of to_string() returns Ok(k), and a string
\* that names no variant returns InvalidCountryError carrying that string.
C23_CountryRoundTrip ==
    call.op = "Country::from_str" =>
        /\ call.of.some =>
              /\ call.s = CountryNames[call.of.val]
              /\ call.result.val = [kind |-> "Ok", val |-> call.of.val]
        /\ (\A k \in Country : CountryNames[k] # call.s) =>
              call.result.val = [kind |-> "InvalidCountryError", input |-> call.s]

\* Country::ES written as "ES" and parsed back
C23_Witness ==
    /\ call.op = "Country::from_str"
    /\ call.of.some
    /\ CountryNames[call.of.val] = "ES"
    /\ call.s = "ES"
    /\ call.result.val.kind = "Ok"
    /\ call.result.val.val = call.of.val

\* "es" names no Country
C23_WitnessInvalid ==
    /\ call.op = "Country::from_str"
    /\ call.s = "es"
    /\ call.result.val = [kind |-> "InvalidCountryError", input |-> "es"]

\* the token and the expiry record are both absent, or both present with the
\* validity duration equal to the token's expires_in
TokenStateWhole(a) ==
    /\ a.access_token.some <=> a.expires.some
    /\ a.expires.some => a.expires.val[2] = a.access_token.val.expires_in

\* C24: in every state, also after a get_access_token dropped at an .await, the
\* token and the expiry record are both absent or both present and agree on
\* expires_in; a step of get_access_token either leaves the token state as it was
\* or replaces token and expiry together by those of the answer.
C24_TokenStateWhole ==
    /\ [](TokenStateWhole(auth))
    /\ [][(call.op = "get_access_token" /\ call.pc # "done") =>
             \/ auth' = auth
             \/ /\ auth'.access_token = Some(DecodeAccessToken(call.res.val.body).val)
                /\ auth'.expires = Some(<<now, call.res.val.body.expires_in>>)]_vars

\* a refresh dropped at an .await: the client still holds the token acquired
\* before, whole
C24_Witness ==
    /\ call.op = "get_access_token"
    /\ call.pc = "done"
    /\ ~call.result.some
    /\ ~call.res.some
    /\ auth.access_token.some
    /\ auth.expires = Some(<<acquired.val.at, auth.access_token.val.expires_in>>)
    /\ access_token_expired

\* the current get_access_token call returned an error
AcquireFailed ==
    /\ call.op = "get_access_token"
    /\ call.pc = "done"
    /\ call.result.some
    /\ call.result.val.kind # "Ok"

\* C26: the step in which get_access_token returns an error (failed send, status
\* that is not a success, body that does not decode) leaves token and expiry as
\* they were; the state is still expired after it, so the next get_access_token
\* sends a request again.
C26_FailedAcquire ==
    /\ [][(call.op = "get_access_token" /\ call.pc # "done" /\ AcquireFailed') =>
             auth' = auth]_vars
    /\ [](AcquireFailed => (access_token_expired /\ ENABLED get_access_token_send))

\* a refresh answered 401: the token acquired before is still cached
C26_Witness ==
    /\ AcquireFailed
    /\ call.result.val.kind = "ApiError"
    /\ call.res.val.status = 401
    /\ auth.access_token.some
    /\ auth.expires = Some(<<acquired.val.at, acquired.val.expires_in>>)

\* C27: whenever access_token_expired() is false, fewer than expires_in seconds
\* have passed since the provider issued the cached token.
C27_ProviderLifetime ==
    (auth.access_token.some /\ ~access_token_expired) =>
        now - auth.access_token.val.nonce < auth.access_token.val.expires_in

\* C28: an endpoint whose response type is (), answered 2xx with an empty body
\* (204 No Content), returns Ok(()).
C28_UnitResponse ==
    (ApiCallAnswered /\ call.ep.val.response = "()"
       /\ call.res.val.status \in 200..299 /\ call.res.val.body = EmptyBody) =>
          call.result.val = [kind |-> "Ok", val |-> "()"]

\* C29: for an endpoint whose query has a parameter the URL is the base, the
\* relative path, '?' and the serialized query, so that the path the server sees is
\* the relative path and the parameters are the query of the URL.
C29_QueryMark ==
    (QueryRequestSent /\ \E k \in DOMAIN call.ep.val.query.val :
                            call.ep.val.query.val[k].some) =>
        call.req.val.url =
            BaseUrl \o call.ep.val.relative_path \o "?"
                    \o serde_qs_to_string(SerializeQuery(call.ep.val.query.val))

\* what execute_ext(e, headers) of the client sends: the request, or the panic of
\* make_url
RequestOf(e, headers) ==
    LET url == make_url(env, e.relative_path)
    IN IF url.panic THEN url ELSE BuildRequest(e, headers, url.url)

\* the string is in no part of the request
NotInRequest(s, request) ==
    /\ ~Contains(request.url, s)
    /\ \A i \in DOMAIN request.headers : ~Contains(request.headers[i][2], s)
    /\ request.body.some => ~Contains(request.body.val, s)

\* C30: two clients that differ only in their secret send the same request for the
\* same endpoint and HeaderParams without a merchant payer id; the secret goes to
\* the token endpoint as Basic credentials and is in no part of an API request
\* sent without a merchant payer id.
C30_SecretIndependence ==
    /\ [][(auth'.secret # auth.secret
             /\ [auth' EXCEPT !.secret = auth.secret] = auth /\ env' = env) =>
            \A e \in Endpoints \cup InvoiceEndpoints, headers \in HeaderParamsInputs :
               ~headers.merchant_payer_id.some =>
                   RequestOf(e, headers)' = RequestOf(e, headers)]_vars
    /\ []((ApiRequestSent /\ ~call.hp.val.merchant_payer_id.some) =>
             NotInRequest(auth.secret, call.req.val))
    /\ []((call.op = "get_access_token" /\ call.req.some) =>
             HeaderIs("Authorization",
                      "Basic " \o base64_encode(auth.client_id \o ":" \o auth.secret)))

\* the client with the second secret, holding the token the first acquired, sent
\* CreateOrder with PayPal-Request-Id and no merchant payer id
C30_Witness ==
    /\ ApiRequestSent
    /\ auth.secret = "hunter2"
    /\ auth.access_token.some
    /\ call.ep.val = CreateOrder
    /\ ~call.hp.val.merchant_payer_id.some
    /\ call.hp.val.request_id = Some("TEST-1")
    /\ HeaderIs("Authorization", "Bearer TESTBEARERTOKEN")

\* the slots whose future is in flight and is a call of op
InFlightCalls(op) == {s \in Slots : InFlight(s) /\ call[s].op = op}

\* C25: at most one get_access_token is in flight; while one is, no execute is in
\* flight, so none reads the token state; executes may be in flight together, and
\* those that are carry the token the client holds, all the same.
C25_SingleWriter ==
    /\ Cardinality(InFlightCalls("get_access_token")) <= 1
    /\ InFlightCalls("get_access_token") # {} => InFlightCalls("execute_ext") = {}
    /\ \A s \in InFlightCalls("execute_ext") :
          HeaderValues(call[s].req.val.headers, "Authorization") =
             IF auth.access_token.some
             THEN {"Bearer " \o auth.access_token.val.access_token} ELSE {}

\* two executes in flight together, both with the token the client holds
C25_Witness ==
    /\ Cardinality(InFlightCalls("execute_ext")) >= 2
    /\ auth.access_token.some
    /\ \A s \in InFlightCalls("execute_ext") :
          HeaderValues(call[s].req.val.headers, "Authorization") = {"Bearer TOKEN2"}

====
